---- MODULE Spec2Model ----
(***************************************************************************)
(* Wallet ledger of the FastAPI backend: wallet creation, credit / debit  *)
(* transactions and transfers, as implemented in app/crud.py,             *)
(* app/api/routes/wallets.py and app/utils.py.                            *)
(*                                                                         *)
(* Money is held as integers.  A stored balance or a stored transaction   *)
(* amount is a number of cents (Numeric(18, 2)).  A raw request amount of *)
(* the wallets route is a number of mills (1/1000), so that amounts with  *)
(* a third decimal reach the validator.  Exchange rates are held in       *)
(* thousandths, fee rates in hundredths.                                  *)
(***************************************************************************)
EXTENDS Integers, Sequences, FiniteSets, TLC

VARIABLES wallets, txs, last, reqs, calc, users, emails

vars == <<wallets, txs, last, reqs, calc, users, emails>>

(***************************************************************************)
(* Bounds of the model.                                                    *)
(***************************************************************************)
MaxWallets == 2
MaxTx == 2
\* the largest amount handed to core/currency.py, in cents
MaxCoreAmount == 5100

Users == {"u1", "u2"}
\* the users sending requests in SpecTx
TxUsers == {"u1"}
\* the users with is_superuser set, and the users sending read requests
Superusers == {"admin"}
ReadUsers == Users \cup Superusers
\* the ids of the users that requests create
NewUsers == {"u3", "u4"}
UserIds == ReadUsers \cup NewUsers
\* e-mail addresses; NoEmail: the request sets no e-mail
Emails == {"u1@x", "u2@x", "admin@x", "new@x"}
NoEmail == "-"
\* the e-mail addresses of the users that exist at the start
InitialEmails == [u1 |-> "u1@x", u2 |-> "u2@x", admin |-> "admin@x"]
WalletIds == 1 .. MaxWallets
\* raw amounts sent to POST /wallets/{id}/transactions, in mills
RawAmounts == {0, 5, 30}
\* 2-decimal amounts sent to the crud functions, in cents
CentAmounts == {3, 10}
\* offsets and limits sent to the listing of a wallet's transactions
Skips == {0, 1}
Limits == {1, 100}
\* 2-decimal amounts handed to core/currency.py, in cents
CoreAmounts == 0 .. MaxCoreAmount
\* amounts handed to the conversion functions, in mills
MillAmounts == {0, 4, 5, 15, 30, 1000, 100000}

(***************************************************************************)
(* Program constants.                                                      *)
(***************************************************************************)
Currencies == {"USD", "EUR", "RUB"}
CREDIT == "credit"
DEBIT == "debit"
TransactionTypes == {CREDIT, DEBIT}
MAX_WALLETS_PER_USER == 3
\* the most wallets create_wallet lets exist: every user at the limit
WalletCap == Cardinality(Users) * MAX_WALLETS_PER_USER

\* api/routes/wallets.py: EXCHANGE_RATES, in thousandths
RoutesExchangeRates ==
  (<<"USD", "EUR">> :> 850) @@ (<<"USD", "RUB">> :> 75000) @@
  (<<"EUR", "USD">> :> 1180) @@ (<<"EUR", "RUB">> :> 88240) @@
  (<<"RUB", "USD">> :> 13) @@ (<<"RUB", "EUR">> :> 11)
\* api/routes/wallets.py: CONVERSION_FEE_RATE = 0.02, in hundredths
CONVERSION_FEE_RATE == 2

\* constants.py: EXCHANGE_RATES, keyed by (from, to), in thousandths
EXCHANGE_RATES ==
  (<<"USD", "USD">> :> 1000) @@ (<<"USD", "EUR">> :> 900) @@
  (<<"USD", "RUB">> :> 90000) @@ (<<"EUR", "EUR">> :> 1000) @@
  (<<"EUR", "USD">> :> 1110) @@ (<<"EUR", "RUB">> :> 100000) @@
  (<<"RUB", "RUB">> :> 1000) @@ (<<"RUB", "USD">> :> 11) @@
  (<<"RUB", "EUR">> :> 10)
\* the fee rate utils.py imports; 1%, in hundredths
EXCHANGE_FEE_RATE == 1

(***************************************************************************)
(* Decimal helpers.                                                        *)
(***************************************************************************)
\* Decimal.quantize(Decimal("0.01")) under the default context
\* (ROUND_HALF_EVEN) of a value n/d cents, n >= 0
QuantizeHalfEven(n, d) ==
  LET q == n \div d
      r == n % d
  IN IF 2 * r < d THEN q
     ELSE IF 2 * r > d THEN q + 1
     ELSE IF q % 2 = 0 THEN q ELSE q + 1

\* Decimal.quantize(Decimal("0.01"), rounding=ROUND_HALF_UP), n >= 0
QuantizeHalfUp(n, d) ==
  LET q == n \div d
      r == n % d
  IN IF 2 * r >= d THEN q + 1 ELSE q

\* models.py _quantize: ROUND_DOWN of a raw amount in mills to cents
models_quantize(mills) ==
  IF mills >= 0 THEN mills \div 10 ELSE -((-mills) \div 10)

WalletsOf(ws, u) == {w \in DOMAIN ws : ws[w].user_id = u}

\* primary key of a new wallet row: an id no wallet has
NewWalletId(ws) ==
  CHOOSE i \in 1 .. (Cardinality(DOMAIN ws) + 1) :
    /\ i \notin DOMAIN ws
    /\ \A j \in 1 .. (i - 1) : j \in DOMAIN ws

Tx(w, t, a, c) == [wallet_id |-> w, type |-> t, amount |-> a, currency |-> c]

Result(ws, ts, o) == [wallets |-> ws, txs |-> ts, outcome |-> o]

\* mutant: create_wallet without the duplicate-currency check
routes_create_wallet_nodup(ws, ts, u, c) ==
  IF Cardinality(WalletsOf(ws, u)) >= MAX_WALLETS_PER_USER
    THEN Result(ws, ts, "LimitExceeded")
  ELSE Result(ws @@ (NewWalletId(ws) :>
                [user_id |-> u, currency |-> c, balance |-> 0]), ts, "ok")

(***************************************************************************)
(* api/routes/wallets.py: create_wallet                                   *)
(***************************************************************************)
routes_create_wallet(ws, ts, u, c) ==
  IF Cardinality(WalletsOf(ws, u)) >= MAX_WALLETS_PER_USER
    THEN Result(ws, ts, "LimitExceeded")
  ELSE IF \E w \in WalletsOf(ws, u) : ws[w].currency = c
    THEN Result(ws, ts, "DuplicateCurrency")
  ELSE Result(ws @@ (NewWalletId(ws) :>
                [user_id |-> u, currency |-> c, balance |-> 0]), ts, "ok")

\* mutant: the wallet count is compared with the limit less one
crud_create_wallet_offbyone(ws, ts, u, c) ==
  IF \E w \in WalletsOf(ws, u) : ws[w].currency = c
    THEN Result(ws, ts, "DuplicateCurrency")
  ELSE IF Cardinality(WalletsOf(ws, u)) >= MAX_WALLETS_PER_USER - 1
    THEN Result(ws, ts, "LimitExceeded")
  ELSE Result(ws @@ (NewWalletId(ws) :>
                [user_id |-> u, currency |-> c, balance |-> 0]), ts, "ok")

(***************************************************************************)
(* crud.py: create_wallet                                                 *)
(***************************************************************************)
crud_create_wallet(ws, ts, u, c) ==
  IF \E w \in WalletsOf(ws, u) : ws[w].currency = c
    THEN Result(ws, ts, "DuplicateCurrency")
  ELSE IF Cardinality(WalletsOf(ws, u)) >= MAX_WALLETS_PER_USER
    THEN Result(ws, ts, "LimitExceeded")
  ELSE Result(ws @@ (NewWalletId(ws) :>
                [user_id |-> u, currency |-> c, balance |-> 0]), ts, "ok")

(***************************************************************************)
(* models.py: TransactionBase.validate_amount                             *)
(* The request amount must be positive; it is then quantized (ROUND_DOWN) *)
(* to 2 decimals.                                                          *)
(***************************************************************************)
validate_amount(raw) ==
  IF raw <= 0 THEN [ok |-> FALSE, amount |-> 0]
  ELSE [ok |-> TRUE, amount |-> models_quantize(raw)]

\* one cent in the unit of an unrounded effective amount:
\* cents * rate (thousandths) * fee factor (hundredths)
Scale == 100000

\* api/routes/wallets.py lines 157-176: the effective amount, in 1/Scale cents
EffectiveAmount(amount, c, wc) ==
  IF c # wc
    THEN LET effective_amount == amount * RoutesExchangeRates[<<c, wc>>] * 100
             conversion_fee == amount * RoutesExchangeRates[<<c, wc>>]
                                 * CONVERSION_FEE_RATE
         IN effective_amount - conversion_fee
    ELSE amount * Scale

\* mutant: the transaction row is added before the balance check
routes_create_transaction_logfirst(ws, ts, u, w, t, raw, c) ==
  IF ~validate_amount(raw).ok THEN Result(ws, ts, "InvalidAmount")
  ELSE IF w \notin DOMAIN ws THEN Result(ws, ts, "NotFound")
  ELSE IF ws[w].user_id # u THEN Result(ws, ts, "NotFound")
  ELSE
    LET amount == validate_amount(raw).amount
        effective_amount == EffectiveAmount(amount, c, ws[w].currency)
        balance == ws[w].balance * Scale
        logged == Append(ts, Tx(w, t, amount, c))
    IN IF t = DEBIT /\ balance < effective_amount
         THEN Result(ws, logged, "InsufficientFunds")
       ELSE
         LET new_balance == IF t = DEBIT THEN balance - effective_amount
                            ELSE balance + effective_amount
         IN Result([ws EXCEPT ![w].balance = QuantizeHalfEven(new_balance, Scale)],
                   logged, "ok")

\* mutant: the new balance is rounded down to a whole unit of 10 cents
routes_create_transaction_coarse(ws, ts, u, w, t, raw, c) ==
  IF ~validate_amount(raw).ok THEN Result(ws, ts, "InvalidAmount")
  ELSE IF w \notin DOMAIN ws THEN Result(ws, ts, "NotFound")
  ELSE IF ws[w].user_id # u THEN Result(ws, ts, "NotFound")
  ELSE
    LET amount == validate_amount(raw).amount
        effective_amount == EffectiveAmount(amount, c, ws[w].currency)
        balance == ws[w].balance * Scale
    IN IF t = DEBIT /\ balance < effective_amount
         THEN Result(ws, ts, "InsufficientFunds")
       ELSE
         LET new_balance == IF t = DEBIT THEN balance - effective_amount
                            ELSE balance + effective_amount
         IN Result([ws EXCEPT ![w].balance = (new_balance \div (10 * Scale)) * 10],
                   Append(ts, Tx(w, t, amount, c)), "ok")

(***************************************************************************)
(* api/routes/wallets.py: create_transaction                              *)
(***************************************************************************)
routes_create_transaction(ws, ts, u, w, t, raw, c) ==
  IF ~validate_amount(raw).ok THEN Result(ws, ts, "InvalidAmount")
  ELSE IF w \notin DOMAIN ws THEN Result(ws, ts, "NotFound")
  ELSE IF ws[w].user_id # u THEN Result(ws, ts, "NotFound")
  ELSE IF c # ws[w].currency /\ <<c, ws[w].currency>> \notin DOMAIN RoutesExchangeRates
    THEN Result(ws, ts, "UnsupportedConversion")
  ELSE
    LET amount == validate_amount(raw).amount
        effective_amount == EffectiveAmount(amount, c, ws[w].currency)
        balance == ws[w].balance * Scale
    IN IF t = DEBIT /\ balance < effective_amount
         THEN Result(ws, ts, "InsufficientFunds")
       ELSE
         LET new_balance == IF t = DEBIT THEN balance - effective_amount
                            ELSE balance + effective_amount
         IN Result([ws EXCEPT ![w].balance = QuantizeHalfEven(new_balance, Scale)],
                   Append(ts, Tx(w, t, amount, c)), "ok")

(***************************************************************************)
(* api/routes/transactions.py: create_wallet_transaction                  *)
(* target: the target wallet of the request, 0 when it names none.  The   *)
(* handler passes crud.create_transaction the keyword target_wallet_id,   *)
(* which it does not take, and no user_id: the call raises TypeError      *)
(* before it touches the database (InternalError).                        *)
(***************************************************************************)
transactions_create_wallet_transaction(ws, ts, u, w, target) ==
  IF w \notin DOMAIN ws THEN Result(ws, ts, "NotFound")
  ELSE IF u \notin Superusers /\ ws[w].user_id # u
    THEN Result(ws, ts, "NotEnoughPermissions")
  ELSE IF target # 0 /\ target \notin DOMAIN ws
    THEN Result(ws, ts, "TargetNotFound")
  ELSE IF target # 0 /\ u \notin Superusers /\ ws[target].user_id # u
    THEN Result(ws, ts, "NotEnoughPermissions")
  ELSE Result(ws, ts, "InternalError")

\* mutant: create_transaction without the ownership check
crud_create_transaction_anyowner(ws, ts, u, w, t, amount) ==
  IF amount <= 0 THEN Result(ws, ts, "InvalidAmount")
  ELSE IF w \notin DOMAIN ws THEN Result(ws, ts, "NotFound")
  ELSE
    LET new_balance == IF t = CREDIT THEN ws[w].balance + amount
                       ELSE ws[w].balance - amount
    IN IF t = DEBIT /\ new_balance < 0
         THEN Result(ws, ts, "InsufficientFunds")
       ELSE Result([ws EXCEPT ![w].balance = new_balance],
                   Append(ts, Tx(w, t, amount, ws[w].currency)), "ok")

\* mutant: create_transaction stores its record in place of the last one
crud_create_transaction_overwrite(ws, ts, u, w, t, amount) ==
  IF amount <= 0 THEN Result(ws, ts, "InvalidAmount")
  ELSE IF w \notin DOMAIN ws THEN Result(ws, ts, "NotFound")
  ELSE IF ws[w].user_id # u THEN Result(ws, ts, "Forbidden")
  ELSE
    LET new_balance == IF t = CREDIT THEN ws[w].balance + amount
                       ELSE ws[w].balance - amount
    IN IF t = DEBIT /\ new_balance < 0
         THEN Result(ws, ts, "InsufficientFunds")
       ELSE Result([ws EXCEPT ![w].balance = new_balance],
                   IF ts = <<>> THEN <<Tx(w, t, amount, ws[w].currency)>>
                   ELSE [ts EXCEPT ![Len(ts)] = Tx(w, t, amount, ws[w].currency)],
                   "ok")

\* mutant: create_transaction changes the balance and stores no record
crud_create_transaction_norecord(ws, ts, u, w, t, amount) ==
  IF amount <= 0 THEN Result(ws, ts, "InvalidAmount")
  ELSE IF w \notin DOMAIN ws THEN Result(ws, ts, "NotFound")
  ELSE IF ws[w].user_id # u THEN Result(ws, ts, "Forbidden")
  ELSE
    LET new_balance == IF t = CREDIT THEN ws[w].balance + amount
                       ELSE ws[w].balance - amount
    IN IF t = DEBIT /\ new_balance < 0
         THEN Result(ws, ts, "InsufficientFunds")
       ELSE Result([ws EXCEPT ![w].balance = new_balance], ts, "ok")

\* mutant: create_transaction without the balance check of a debit
crud_create_transaction_nocheck(ws, ts, u, w, t, amount) ==
  IF amount <= 0 THEN Result(ws, ts, "InvalidAmount")
  ELSE IF w \notin DOMAIN ws THEN Result(ws, ts, "NotFound")
  ELSE IF ws[w].user_id # u THEN Result(ws, ts, "Forbidden")
  ELSE
    LET new_balance == IF t = CREDIT THEN ws[w].balance + amount
                       ELSE ws[w].balance - amount
    IN Result([ws EXCEPT ![w].balance = new_balance],
              Append(ts, Tx(w, t, amount, ws[w].currency)), "ok")

(***************************************************************************)
(* crud.py: create_transaction                                            *)
(* The request model (models/wallet_models.py TransactionBase) accepts a  *)
(* 2-decimal amount greater than 0.                                       *)
(***************************************************************************)
crud_create_transaction(ws, ts, u, w, t, amount) ==
  IF amount <= 0 THEN Result(ws, ts, "InvalidAmount")
  ELSE IF w \notin DOMAIN ws THEN Result(ws, ts, "NotFound")
  ELSE IF ws[w].user_id # u THEN Result(ws, ts, "Forbidden")
  ELSE
    LET new_balance == IF t = CREDIT THEN ws[w].balance + amount
                       ELSE ws[w].balance - amount
    IN IF t = DEBIT /\ new_balance < 0
         THEN Result(ws, ts, "InsufficientFunds")
       ELSE Result([ws EXCEPT ![w].balance = new_balance],
                   Append(ts, Tx(w, t, amount, ws[w].currency)), "ok")

(***************************************************************************)
(* utils.py: convert_currency, calculate_exchange_fee, convert_with_fee   *)
(* A dictionary key is modelled as the tuple of its components, so the    *)
(* key from_currency of EXCHANGE_RATES[from_currency] is <<from>>.        *)
(***************************************************************************)
convert_currency(amount, from_currency, to_currency) ==
  IF from_currency = to_currency THEN [ok |-> TRUE, amount |-> amount]
  ELSE IF <<from_currency>> \notin DOMAIN EXCHANGE_RATES
          \/ <<to_currency>> \notin DOMAIN EXCHANGE_RATES
    THEN [ok |-> FALSE, amount |-> 0]
  ELSE [ok |-> TRUE,
        amount |-> QuantizeHalfUp(amount * EXCHANGE_RATES[<<to_currency>>],
                                  EXCHANGE_RATES[<<from_currency>>])]

calculate_exchange_fee(amount) ==
  QuantizeHalfUp(amount * EXCHANGE_FEE_RATE, 100)

convert_with_fee(amount, from_currency, to_currency) ==
  IF from_currency = to_currency
    THEN [ok |-> TRUE, amount |-> amount, fee |-> 0]
  ELSE
    LET converted == convert_currency(amount, from_currency, to_currency)
    IN IF ~converted.ok THEN [ok |-> FALSE, amount |-> 0, fee |-> 0]
       ELSE LET fee == calculate_exchange_fee(converted.amount)
            IN [ok |-> TRUE, amount |-> converted.amount - fee, fee |-> fee]

\* mutant: the source is debited before the conversion, and stays debited
\* when the conversion fails
transfer_between_wallets_partial(ws, ts, u, f, t, amount) ==
  IF amount <= 0 THEN Result(ws, ts, "InvalidAmount")
  ELSE IF f \notin DOMAIN ws \/ t \notin DOMAIN ws THEN Result(ws, ts, "NotFound")
  ELSE IF ws[f].user_id # u \/ ws[t].user_id # u THEN Result(ws, ts, "Forbidden")
  ELSE IF ws[f].balance < amount THEN Result(ws, ts, "InsufficientFunds")
  ELSE
    LET conv == convert_with_fee(amount, ws[f].currency, ws[t].currency)
        ws1 == [ws EXCEPT ![f].balance = @ - amount]
        ws2 == [ws1 EXCEPT ![t].balance = @ + conv.amount]
    IN IF ~conv.ok THEN Result(ws1, ts, "KeyError")
       ELSE Result(ws2,
                   ts \o <<Tx(f, DEBIT, amount, ws[f].currency),
                           Tx(t, CREDIT, conv.amount, ws[t].currency)>>,
                   "ok")

\* mutant: only the source wallet is checked against the requesting user
transfer_between_wallets_noowner(ws, ts, u, f, t, amount) ==
  IF amount <= 0 THEN Result(ws, ts, "InvalidAmount")
  ELSE IF f \notin DOMAIN ws \/ t \notin DOMAIN ws THEN Result(ws, ts, "NotFound")
  ELSE IF ws[f].user_id # u THEN Result(ws, ts, "Forbidden")
  ELSE IF ws[f].balance < amount THEN Result(ws, ts, "InsufficientFunds")
  ELSE
    LET conv == convert_with_fee(amount, ws[f].currency, ws[t].currency)
    IN IF ~conv.ok THEN Result(ws, ts, "KeyError")
       ELSE
         LET ws1 == [ws EXCEPT ![f].balance = @ - amount]
             ws2 == [ws1 EXCEPT ![t].balance = @ + conv.amount]
         IN Result(ws2,
                   ts \o <<Tx(f, DEBIT, amount, ws[f].currency),
                           Tx(t, CREDIT, conv.amount, ws[t].currency)>>,
                   "ok")

(***************************************************************************)
(* core/currency.py: RATES, FEE_RATE, quantize_money, convert, apply_fee. *)
(* Amounts in cents.  A rate is num / den + low / 10^10, with             *)
(* den * k = 10^10, so that 1.1111111111 is held exactly.                 *)
(***************************************************************************)
Rate(num) == [num |-> num, den |-> 1000, k |-> 10000000, low |-> 0]

RATES ==
  (<<"USD", "USD">> :> Rate(1000)) @@ (<<"USD", "EUR">> :> Rate(900)) @@
  (<<"USD", "RUB">> :> Rate(90000)) @@
  (<<"EUR", "USD">> :> [num |-> 111111, den |-> 100000, k |-> 100000,
                        low |-> 11111]) @@
  (<<"EUR", "EUR">> :> Rate(1000)) @@ (<<"EUR", "RUB">> :> Rate(100000)) @@
  (<<"RUB", "USD">> :> Rate(11)) @@ (<<"RUB", "EUR">> :> Rate(10)) @@
  (<<"RUB", "RUB">> :> Rate(1000))

\* core/currency.py: FEE_RATE = 0.01, in hundredths
FEE_RATE == 1

\* quantize_money(amount * rate): the product rounded half up to a cent
quantize_money_product(amount, rate) ==
  LET t == amount * rate.num + rate.den \div 2
      y == (amount * rate.low) \div rate.k
  IN (t \div rate.den) + (IF (t % rate.den) + y >= rate.den THEN 1 ELSE 0)

core_convert(amount, from_currency, to_currency) ==
  quantize_money_product(amount, RATES[<<from_currency, to_currency>>])

\* mutant: no fee is taken
core_apply_fee_nofee(amount, cross_currency) == amount

core_apply_fee(amount, cross_currency) ==
  IF ~cross_currency THEN amount
  ELSE amount - QuantizeHalfUp(amount * FEE_RATE, 100)

\* a conversion with its fee: apply_fee(convert(amount, from, to))
core_convert_with_fee(amount, from_currency, to_currency) ==
  core_apply_fee(core_convert(amount, from_currency, to_currency),
                 from_currency # to_currency)

(***************************************************************************)
(* Listing the transactions of a wallet.  A record's timestamp is its     *)
(* place in txs: every record is stamped when it is made.                 *)
(***************************************************************************)
WalletRecords(ts, w) == SelectSeq(ts, LAMBDA t : t.wallet_id = w)

Reverse(q) == [i \in 1 .. Len(q) |-> q[Len(q) + 1 - i]]

\* OFFSET skip LIMIT limit of the rows q
Page(q, skip, limit) ==
  SubSeq(q, skip + 1, IF Len(q) < skip + limit THEN Len(q) ELSE skip + limit)

\* the orders in which a SELECT without ORDER BY may return the rows q
Orders(q) ==
  {[i \in 1 .. Len(q) |-> q[p[i]]] :
     p \in {f \in [1 .. Len(q) -> 1 .. Len(q)] :
              \A i, j \in 1 .. Len(q) : f[i] = f[j] => i = j}}

\* crud.py: get_wallet_transactions; the rows come in any order
crud_get_wallet_transactions(ts, w, skip, limit) ==
  {Page(q, skip, limit) : q \in Orders(WalletRecords(ts, w))}

\* api/routes/wallets.py: get_wallet_transactions
routes_get_wallet_transactions(ws, ts, u, w, skip, limit) ==
  IF w \notin DOMAIN ws THEN [outcome |-> "NotFound", result |-> <<>>]
  ELSE IF ws[w].user_id # u THEN [outcome |-> "NotFound", result |-> <<>>]
  ELSE [outcome |-> "ok",
        result |-> Page(Reverse(WalletRecords(ts, w)), skip, limit)]

\* api/routes/wallets.py: get_wallet_details
routes_get_wallet_details(ws, u, w) ==
  IF w \notin DOMAIN ws THEN [outcome |-> "NotFound", result |-> <<>>]
  ELSE IF ws[w].user_id # u THEN [outcome |-> "NotFound", result |-> <<>>]
  ELSE [outcome |-> "ok", result |-> <<ws[w]>>]

\* api/routes/transactions.py: read_wallet_transactions, the rows it gets
\* from crud.get_wallet_transactions with the default offset and limit
read_wallet_transactions(ws, ts, u, w) ==
  IF w \notin DOMAIN ws THEN {[outcome |-> "NotFound", result |-> <<>>]}
  ELSE IF u \notin Superusers /\ ws[w].user_id # u
    THEN {[outcome |-> "NotEnoughPermissions", result |-> <<>>]}
  ELSE {[outcome |-> "ok", result |-> rows] :
          rows \in crud_get_wallet_transactions(ts, w, 0, 100)}

(***************************************************************************)
(* currency_service.py: convert_currency, calculate_conversion_fee,       *)
(* convert_with_fee.  Amounts in mills.  amount / rate_from * rate_to is  *)
(* taken exactly: the quotient of the 28-digit Decimal context differs    *)
(* from it by less than 10^-25, and a value of amount * rate_to /         *)
(* rate_from lies on a rounding tie only where the division is exact.     *)
(***************************************************************************)
\* currency_service.py: EXCHANGE_RATES, in hundredths
ServiceExchangeRates == ("USD" :> 100) @@ ("EUR" :> 85) @@ ("RUB" :> 7500)

service_convert_currency(amount, from_currency, to_currency) ==
  IF from_currency = to_currency THEN amount
  ELSE 10 * QuantizeHalfEven(amount * ServiceExchangeRates[to_currency],
                             10 * ServiceExchangeRates[from_currency])

service_calculate_conversion_fee(amount) ==
  10 * QuantizeHalfEven(amount * CONVERSION_FEE_RATE, 1000)

service_convert_with_fee(amount, from_currency, to_currency) ==
  IF from_currency = to_currency
    THEN [ok |-> TRUE, amount |-> amount, fee |-> 0]
  ELSE
    LET converted_amount == service_convert_currency(amount, from_currency, to_currency)
        fee == service_calculate_conversion_fee(converted_amount)
    IN [ok |-> TRUE,
        amount |-> 10 * QuantizeHalfEven(converted_amount - fee, 10),
        fee |-> fee]

(***************************************************************************)
(* crud.py: transfer_between_wallets                                      *)
(* from_wallet and to_wallet are the same object when the ids are equal,  *)
(* so the two balance updates are applied one after the other.            *)
(***************************************************************************)
transfer_between_wallets(ws, ts, u, f, t, amount) ==
  IF amount <= 0 THEN Result(ws, ts, "InvalidAmount")
  ELSE IF f \notin DOMAIN ws \/ t \notin DOMAIN ws THEN Result(ws, ts, "NotFound")
  ELSE IF ws[f].user_id # u \/ ws[t].user_id # u THEN Result(ws, ts, "Forbidden")
  ELSE IF ws[f].balance < amount THEN Result(ws, ts, "InsufficientFunds")
  ELSE
    LET conv == convert_with_fee(amount, ws[f].currency, ws[t].currency)
    IN IF ~conv.ok THEN Result(ws, ts, "KeyError")
       ELSE
         LET ws1 == [ws EXCEPT ![f].balance = @ - amount]
             ws2 == [ws1 EXCEPT ![t].balance = @ + conv.amount]
         IN Result(ws2,
                   ts \o <<Tx(f, DEBIT, amount, ws[f].currency),
                           Tx(t, CREDIT, conv.amount, ws[t].currency)>>,
                   "ok")

\* mutant: the user's wallets go, their transactions stay
session_delete_wallets_only(us, ws, ts, u) ==
  LET kept == {w \in DOMAIN ws : ws[w].user_id # u}
  IN [users |-> us \ {u},
      wallets |-> [w \in kept |-> ws[w]],
      txs |-> ts,
      outcome |-> "ok"]

(***************************************************************************)
(* models/db_models.py: User.wallet_list and Wallet.transaction_list are  *)
(* relationships with cascade_delete: session.delete(user) deletes the    *)
(* user's wallets, and with each wallet its transactions.                 *)
(***************************************************************************)
session_delete(us, ws, ts, u) ==
  LET kept == {w \in DOMAIN ws : ws[w].user_id # u}
  IN [users |-> us \ {u},
      wallets |-> [w \in kept |-> ws[w]],
      txs |-> SelectSeq(ts, LAMBDA t : t.wallet_id \in kept),
      outcome |-> "ok"]

Rejected(us, ws, ts, o) == [users |-> us, wallets |-> ws, txs |-> ts, outcome |-> o]

(***************************************************************************)
(* api/routes/users_admin.py: delete_user                                 *)
(***************************************************************************)
users_admin_delete_user(us, ws, ts, current_user, user_id) ==
  IF user_id \notin us THEN Rejected(us, ws, ts, "NotFound")
  ELSE IF user_id = current_user THEN Rejected(us, ws, ts, "Forbidden")
  ELSE session_delete(us, ws, ts, user_id)

(***************************************************************************)
(* api/routes/users_profile.py: delete_user_me                            *)
(***************************************************************************)
users_profile_delete_user_me(us, ws, ts, current_user) ==
  IF current_user \in Superusers THEN Rejected(us, ws, ts, "Forbidden")
  ELSE session_delete(us, ws, ts, current_user)

(***************************************************************************)
(* The user directory: em is the e-mail address of each user of us.       *)
(***************************************************************************)
Directory(us, em, o) == [users |-> us, emails |-> em, outcome |-> o]

\* crud.py: get_user_by_email
get_user_by_email(us, em, email) == {u \in us : em[u] = email}

\* primary key of a new user row: an id no user has
NewUserId(us) == CHOOSE u \in UserIds \ us : TRUE

\* crud.py: create_user
crud_create_user(us, em, email) ==
  LET id == NewUserId(us)
  IN Directory(us \cup {id}, em @@ (id :> email), "ok")

\* crud.py: update_user, the e-mail of the update
crud_update_user(us, em, db_user, email) ==
  Directory(us, IF email = NoEmail THEN em ELSE [em EXCEPT ![db_user] = email], "ok")

\* mutant: update_user_me without the look-up of the new e-mail
update_user_me_nocheck(us, em, current_user, email) ==
  crud_update_user(us, em, current_user, email)

(***************************************************************************)
(* api/routes/users_auth.py: register_user                                *)
(***************************************************************************)
register_user(us, em, email) ==
  IF get_user_by_email(us, em, email) # {}
    THEN Directory(us, em, "EmailExists")
  ELSE crud_create_user(us, em, email)

(***************************************************************************)
(* email_utils.py: send_email raises ValueError when the e-mail settings  *)
(* are not configured.                                                     *)
(***************************************************************************)
send_email(emails_enabled) == IF ~emails_enabled THEN "ValueError" ELSE "ok"

(***************************************************************************)
(* api/routes/users_admin.py: create_user.  The user is committed by      *)
(* crud.create_user before the new-account e-mail is sent, and the e-mail *)
(* is sent when settings.emails_enabled is false.                         *)
(***************************************************************************)
admin_create_user(us, em, email, emails_enabled) ==
  IF get_user_by_email(us, em, email) # {}
    THEN Directory(us, em, "EmailExists")
  ELSE
    LET created == crud_create_user(us, em, email)
    IN IF ~emails_enabled
         THEN [created EXCEPT !.outcome = send_email(emails_enabled)]
       ELSE created

(***************************************************************************)
(* api/routes/users_admin.py: update_user                                 *)
(***************************************************************************)
admin_update_user(us, em, user_id, email) ==
  IF user_id \notin us THEN Directory(us, em, "NotFound")
  ELSE IF email # NoEmail /\ get_user_by_email(us, em, email) \ {user_id} # {}
    THEN Directory(us, em, "Conflict")
  ELSE crud_update_user(us, em, user_id, email)

(***************************************************************************)
(* api/routes/users_profile.py: update_user_me                            *)
(***************************************************************************)
update_user_me(us, em, current_user, email) ==
  IF email # NoEmail /\ get_user_by_email(us, em, email) \ {current_user} # {}
    THEN Directory(us, em, "Conflict")
  ELSE crud_update_user(us, em, current_user, email)

(***************************************************************************)
(* The sequential system: every request handler runs to completion.       *)
(* last is the last request served and its outcome; before is the balance *)
(* its wallet had when the request arrived.                                *)
(***************************************************************************)
Request(op, u, w, to, t, a, c, o) ==
  [type |-> t, amount |-> a, currency |-> c, outcome |-> o, target |-> "-",
   skip |-> 0, limit |-> 0, result |-> <<>>, email |-> "-", op |-> op,
   to |-> to, user |-> u, wallet |-> w, before |-> 0]

NoRequest == Request("none", "-", 0, 0, "-", 0, "-", "-")

\* the requests being served at the same time, each in its own session
Sessions == {1, 2}

\* the wallet row a session has loaded (exists: the row was found)
NoRow == [user_id |-> "-", currency |-> "-", balance |-> 0, exists |-> FALSE]
Row(wallet) == [user_id |-> wallet.user_id, currency |-> wallet.currency,
                balance |-> wallet.balance, exists |-> TRUE]

\* pc: where the session's handler is; seen: the row it loaded; conc: it
\* held its row while the other session held one
Idle == [pc |-> "idle", req |-> NoRequest, seen |-> NoRow, conc |-> FALSE]

\* calc: the last call of a conversion function and what it returned
Call(fn, x, from_currency, to_currency, ok, amount, fee) ==
  [amount |-> amount, ok |-> ok, fee |-> fee, to |-> to_currency,
   fn |-> fn, x |-> x, from |-> from_currency, back |-> 0]

NoCall == Call("none", 0, "-", "-", FALSE, 0, 0)

Init ==
  /\ wallets = <<>>
  /\ txs = <<>>
  /\ last = NoRequest
  /\ reqs = [s \in Sessions |-> Idle]
  /\ calc = NoCall
  /\ users = ReadUsers
  /\ emails = InitialEmails

\* the database after the request; rec: whether the request is recorded
Apply(r, req, rec) ==
  /\ wallets' = r.wallets
  /\ txs' = r.txs
  /\ last' = IF rec
               THEN [req EXCEPT !.before = IF req.wallet \in DOMAIN wallets
                                             THEN wallets[req.wallet].balance
                                             ELSE 0]
               ELSE last
  /\ UNCHANGED <<reqs, calc, users, emails>>

\* U: the users sending requests; cap: the wallets the model lets exist
RoutesCreateWallet(rec, U, cap) ==
  \E u \in U, c \in Currencies :
    /\ Cardinality(DOMAIN wallets) < cap
    /\ LET r == routes_create_wallet(wallets, txs, u, c)
       IN Apply(r, Request("routes_create_wallet", u, 0, 0, "-", 0, c, r.outcome), rec)

CrudCreateWallet(rec, U, cap) ==
  \E u \in U, c \in Currencies :
    /\ Cardinality(DOMAIN wallets) < cap
    /\ LET r == crud_create_wallet(wallets, txs, u, c)
       IN Apply(r, Request("crud_create_wallet", u, 0, 0, "-", 0, c, r.outcome), rec)

RoutesCreateTransaction(rec, U) ==
  \E u \in U, w \in WalletIds, t \in TransactionTypes,
     a \in RawAmounts, c \in Currencies :
    /\ Len(txs) < MaxTx
    /\ LET r == routes_create_transaction(wallets, txs, u, w, t, a, c)
       IN Apply(r, Request("routes_create_transaction", u, w, 0, t, a, c, r.outcome), rec)

CrudCreateTransaction(rec, U) ==
  \E u \in U, w \in WalletIds, t \in TransactionTypes, a \in CentAmounts :
    /\ Len(txs) < MaxTx
    /\ LET r == crud_create_transaction(wallets, txs, u, w, t, a)
       IN Apply(r, Request("crud_create_transaction", u, w, 0, t, a, "-", r.outcome), rec)

\* crud.create_transaction called with a payload that names a currency
\* (models/transaction_models.py TransactionBase.currency): the function
\* never reads it
CrudCreateTransactionIn(rec, U) ==
  \E u \in U, w \in WalletIds, t \in TransactionTypes,
     a \in CentAmounts, c \in Currencies :
    /\ Len(txs) < MaxTx
    /\ LET r == crud_create_transaction(wallets, txs, u, w, t, a)
       IN Apply(r, Request("crud_create_transaction", u, w, 0, t, a, c, r.outcome), rec)

\* the handler fails whatever the type and the amount of the request are
CreateWalletTransaction(rec, U) ==
  \E u \in U, w \in WalletIds, target \in WalletIds \cup {0} :
    LET r == transactions_create_wallet_transaction(wallets, txs, u, w, target)
    IN Apply(r, Request("create_wallet_transaction", u, w, target, CREDIT,
                        10, "-", r.outcome), rec)

TransferBetweenWallets(rec, U) ==
  \E u \in U, f \in WalletIds, t \in WalletIds, a \in CentAmounts :
    /\ Len(txs) < MaxTx
    /\ LET r == transfer_between_wallets(wallets, txs, u, f, t, a)
       IN Apply(r, Request("transfer_between_wallets", u, f, t, "-", a, "-", r.outcome), rec)

\* a read: the database is left as it is
Read(req, out, rec) ==
  /\ last' = IF rec THEN [req EXCEPT !.outcome = out.outcome, !.result = out.result]
              ELSE last
  /\ UNCHANGED <<wallets, txs, reqs, calc, users, emails>>

ListRequest(op, u, w, skip, limit) ==
  [Request(op, u, w, 0, "-", 0, "-", "-") EXCEPT !.skip = skip, !.limit = limit]

RoutesGetWalletTransactions(rec, U) ==
  \E u \in U, w \in WalletIds, skip \in Skips, limit \in Limits :
    Read(ListRequest("routes_get_wallet_transactions", u, w, skip, limit),
         routes_get_wallet_transactions(wallets, txs, u, w, skip, limit), rec)

CrudGetWalletTransactions(rec) ==
  \E w \in WalletIds, skip \in Skips, limit \in Limits :
    \E rows \in crud_get_wallet_transactions(txs, w, skip, limit) :
      Read(ListRequest("crud_get_wallet_transactions", "-", w, skip, limit),
           [outcome |-> "ok", result |-> rows], rec)

RoutesGetWalletDetails(rec, U) ==
  \E u \in U, w \in WalletIds :
    Read(Request("routes_get_wallet_details", u, w, 0, "-", 0, "-", "-"),
         routes_get_wallet_details(wallets, u, w), rec)

ReadWalletTransactions(rec, U) ==
  \E u \in U, w \in WalletIds :
    \E out \in read_wallet_transactions(wallets, txs, u, w) :
      Read(ListRequest("read_wallet_transactions", u, w, 0, 100), out, rec)

\* the rows of the transactions of the wallets of user u
RowsOf(ws, ts, u) == SelectSeq(ts, LAMBDA t : t.wallet_id \in WalletsOf(ws, u))

\* a deletion of a user; before: the transactions the wallets of the user
\* held when the request arrived
ApplyDelete(r, req) ==
  /\ users' = r.users
  /\ emails' = [u \in r.users |-> emails[u]]
  /\ wallets' = r.wallets
  /\ txs' = r.txs
  /\ last' = [req EXCEPT !.outcome = r.outcome,
                         !.before = Len(RowsOf(wallets, txs, req.target))]
  /\ UNCHANGED <<reqs, calc>>

DeleteRequest(op, u, target) ==
  [Request(op, u, 0, 0, "-", 0, "-", "-") EXCEPT !.target = target]

\* DELETE /users/{user_id}: the route admits superusers only
DeleteUser ==
  \E current_user \in users \cap Superusers, user_id \in ReadUsers :
    ApplyDelete(users_admin_delete_user(users, wallets, txs, current_user, user_id),
                DeleteRequest("delete_user", current_user, user_id))

\* DELETE /users/me
DeleteUserMe ==
  \E current_user \in users :
    ApplyDelete(users_profile_delete_user_me(users, wallets, txs, current_user),
                DeleteRequest("delete_user_me", current_user, current_user))

\* a request on the user directory
ApplyDirectory(r, req) ==
  /\ users' = r.users
  /\ emails' = r.emails
  /\ last' = [req EXCEPT !.outcome = r.outcome]
  /\ UNCHANGED <<wallets, txs, reqs, calc>>

UserRequest(op, u, target, email) ==
  [Request(op, u, 0, 0, "-", 0, "-", "-") EXCEPT !.target = target, !.email = email]

\* POST /users/signup
RegisterUser ==
  \E email \in Emails :
    /\ UserIds \ users # {}
    /\ ApplyDirectory(register_user(users, emails, email),
                      UserRequest("register_user", "-", "-", email))

\* POST /users/: the route admits superusers only
AdminCreateUser ==
  \E current_user \in users \cap Superusers, email \in Emails,
     emails_enabled \in BOOLEAN :
    /\ UserIds \ users # {}
    /\ ApplyDirectory(admin_create_user(users, emails, email, emails_enabled),
                      UserRequest("create_user", current_user, "-", email))

\* PATCH /users/{user_id}: the route admits superusers only
AdminUpdateUser ==
  \E current_user \in users \cap Superusers, user_id \in UserIds,
     email \in Emails \cup {NoEmail} :
    ApplyDirectory(admin_update_user(users, emails, user_id, email),
                   UserRequest("update_user", current_user, user_id, email))

\* PATCH /users/me
UpdateUserMe ==
  \E current_user \in users, email \in Emails \cup {NoEmail} :
    ApplyDirectory(update_user_me(users, emails, current_user, email),
                   UserRequest("update_user_me", current_user, current_user, email))

\* every handler, in any order; the requests are not recorded
Next ==
  \/ RoutesCreateWallet(FALSE, Users, MaxWallets)
  \/ CrudCreateWallet(FALSE, Users, MaxWallets)
  \/ RoutesCreateTransaction(FALSE, Users)
  \/ CrudCreateTransaction(FALSE, Users)
  \/ TransferBetweenWallets(FALSE, Users)

Spec == Init /\ [][Next]_vars

\* wallet creation alone: the handlers themselves bound the wallets
NextWallets ==
  \/ RoutesCreateWallet(TRUE, Users, WalletCap)
  \/ CrudCreateWallet(TRUE, Users, WalletCap)

SpecWallets == Init /\ [][NextWallets]_vars

\* credits and debits of one user, the last request recorded
NextTx ==
  \/ RoutesCreateWallet(TRUE, TxUsers, MaxWallets)
  \/ RoutesCreateTransaction(TRUE, TxUsers)
  \/ CrudCreateTransaction(TRUE, TxUsers)

SpecTx == Init /\ [][NextTx]_vars

\* transfers, the last request recorded
NextTransfer ==
  \/ CrudCreateWallet(TRUE, Users, MaxWallets)
  \/ CrudCreateTransaction(TRUE, Users)
  \/ TransferBetweenWallets(TRUE, Users)

SpecTransfer == Init /\ [][NextTransfer]_vars

\* credits and debits of several users and of a superuser, the last
\* request recorded
NextOwn ==
  \/ CrudCreateWallet(TRUE, Users, MaxWallets)
  \/ RoutesCreateTransaction(TRUE, TxUsers)
  \/ CrudCreateTransaction(TRUE, Users)
  \/ CreateWalletTransaction(TRUE, ReadUsers)

SpecOwn == Init /\ [][NextOwn]_vars

\* users come and go: the requests of the users that exist, and the
\* deletion of users
NextUsers ==
  \/ CrudCreateWallet(TRUE, users \cap Users, MaxWallets)
  \/ CrudCreateTransaction(TRUE, users \cap Users)
  \/ DeleteUser
  \/ DeleteUserMe

SpecUsers == Init /\ [][NextUsers]_vars

\* the audit trail: credits and debits of one user whose payload names a
\* currency, the last request recorded
NextAudit ==
  \/ RoutesCreateWallet(TRUE, TxUsers, MaxWallets)
  \/ RoutesCreateTransaction(TRUE, TxUsers)
  \/ CrudCreateTransactionIn(TRUE, TxUsers)

SpecAudit == Init /\ [][NextAudit]_vars

\* the user directory: signup, and the creation and update of users
NextDirectory ==
  \/ RegisterUser
  \/ AdminCreateUser
  \/ AdminUpdateUser
  \/ UpdateUserMe

SpecDirectory == Init /\ [][NextDirectory]_vars

\* the ledger of one user and its listings, the last request recorded
NextLedger ==
  \/ CrudCreateWallet(TRUE, TxUsers, MaxWallets)
  \/ RoutesCreateTransaction(TRUE, TxUsers)
  \/ CrudCreateTransaction(TRUE, TxUsers)
  \/ TransferBetweenWallets(TRUE, TxUsers)
  \/ RoutesGetWalletTransactions(TRUE, TxUsers)
  \/ CrudGetWalletTransactions(TRUE)

SpecLedger == Init /\ [][NextLedger]_vars

\* wallets of two users, read by them and by a superuser
NextRead ==
  \/ CrudCreateWallet(TRUE, Users, MaxWallets)
  \/ CrudCreateTransaction(TRUE, Users)
  \/ RoutesGetWalletDetails(TRUE, ReadUsers)
  \/ RoutesGetWalletTransactions(TRUE, ReadUsers)
  \/ ReadWalletTransactions(TRUE, ReadUsers)

SpecRead == Init /\ [][NextRead]_vars

(***************************************************************************)
(* Two requests served at the same time.  create_transaction loads the    *)
(* wallet with session.get (a plain SELECT, no FOR UPDATE), computes the  *)
(* new balance from the loaded row, and commit() writes that value with   *)
(* UPDATE wallet SET balance = <value>.  Load is the SELECT; Commit is    *)
(* the rest of the handler, run on the loaded row.                        *)
(***************************************************************************)
\* the database as the session sees it: its wallet is the row it loaded
Snapshot(ws, w, seen) ==
  IF seen.exists
    THEN [x \in DOMAIN ws \cup {w} |->
            IF x = w THEN [user_id |-> seen.user_id, currency |-> seen.currency,
                           balance |-> seen.balance]
            ELSE ws[x]]
    ELSE [x \in DOMAIN ws \ {w} |-> ws[x]]

Handle(req, ws, ts) ==
  IF req.op = "crud_create_transaction"
    THEN crud_create_transaction(ws, ts, req.user, req.wallet, req.type, req.amount)
    ELSE routes_create_transaction(ws, ts, req.user, req.wallet, req.type,
                                   req.amount, req.currency)

\* the wallets the concurrent requests name
ConcWalletIds == 1 .. MaxWallets - 1

Load(s, req) ==
  LET others == {o \in Sessions \ {s} : reqs[o].pc = "loaded"}
  IN /\ reqs[s].pc # "loaded"
     /\ Len(txs) < MaxTx
     /\ reqs' = [o \in Sessions |->
                   IF o = s
                     THEN [pc |-> "loaded", req |-> req,
                           seen |-> IF req.wallet \in DOMAIN wallets
                                      THEN Row(wallets[req.wallet]) ELSE NoRow,
                           conc |-> others # {}]
                   ELSE IF o \in others THEN [reqs[o] EXCEPT !.conc = TRUE]
                   ELSE reqs[o]]
     /\ UNCHANGED <<wallets, txs, last, calc, users, emails>>

LoadCrud(s) ==
  \E u \in TxUsers, w \in ConcWalletIds, t \in TransactionTypes, a \in CentAmounts :
    Load(s, Request("crud_create_transaction", u, w, 0, t, a, "-", "-"))

LoadRoutes(s) ==
  \E u \in TxUsers, w \in ConcWalletIds, t \in TransactionTypes,
     a \in RawAmounts, c \in Currencies :
    Load(s, Request("routes_create_transaction", u, w, 0, t, a, c, "-"))

Commit(s) ==
  /\ reqs[s].pc = "loaded"
  /\ LET req == reqs[s].req
         r == Handle(req, Snapshot(wallets, req.wallet, reqs[s].seen), txs)
     IN /\ wallets' = IF r.outcome = "ok"
                         THEN [wallets EXCEPT ![req.wallet].balance =
                                                r.wallets[req.wallet].balance]
                         ELSE wallets
        /\ txs' = r.txs
        /\ reqs' = [reqs EXCEPT ![s].pc = "done", ![s].req.outcome = r.outcome]
  /\ UNCHANGED <<last, calc, users, emails>>

NextConc ==
  \/ CrudCreateWallet(FALSE, TxUsers, MaxWallets - 1)
  \/ \E s \in Sessions : LoadCrud(s)
  \/ \E s \in Sessions : LoadRoutes(s)
  \/ \E s \in Sessions : Commit(s)

SpecConc == Init /\ [][NextConc]_vars

(***************************************************************************)
(* Two create_wallet requests served at the same time.  A handler runs    *)
(* its count and duplicate-currency SELECTs, then inserts the wallet and  *)
(* commits.  The wallet table has the unique constraint on (user_id,      *)
(* currency) in models/db_models.py and in one migration, and has none in *)
(* the other migrations: an insert of a second wallet of a currency       *)
(* either fails (IntegrityError) or goes through.                         *)
(***************************************************************************)
CheckWallet(s, req) ==
  LET checks == IF req.op = "crud_create_wallet"
                  THEN crud_create_wallet(wallets, txs, req.user, req.currency)
                  ELSE routes_create_wallet(wallets, txs, req.user, req.currency)
  IN /\ reqs[s].pc # "loaded"
     /\ Cardinality(DOMAIN wallets) <= MAX_WALLETS_PER_USER
     /\ reqs' = [reqs EXCEPT ![s] =
                   [pc |-> IF checks.outcome = "ok" THEN "loaded" ELSE "done",
                    req |-> [req EXCEPT !.outcome = checks.outcome],
                    seen |-> NoRow,
                    conc |-> FALSE]]
     /\ UNCHANGED <<wallets, txs, last, calc, users, emails>>

CheckCrudWallet(s) ==
  \E u \in TxUsers, c \in Currencies :
    CheckWallet(s, Request("crud_create_wallet", u, 0, 0, "-", 0, c, "-"))

CheckRoutesWallet(s) ==
  \E u \in TxUsers, c \in Currencies :
    CheckWallet(s, Request("routes_create_wallet", u, 0, 0, "-", 0, c, "-"))

InsertWallet(s) ==
  /\ reqs[s].pc = "loaded"
  /\ reqs[s].req.op \in {"crud_create_wallet", "routes_create_wallet"}
  /\ LET req == reqs[s].req
         duplicate == \E w \in WalletsOf(wallets, req.user) :
                        wallets[w].currency = req.currency
     IN \E constraint \in IF duplicate THEN BOOLEAN ELSE {FALSE} :
          IF constraint
            THEN /\ wallets' = wallets
                 /\ reqs' = [reqs EXCEPT ![s].pc = "done",
                                         ![s].req.outcome = "IntegrityError"]
            ELSE /\ wallets' = wallets @@ (NewWalletId(wallets) :>
                              [user_id |-> req.user, currency |-> req.currency,
                               balance |-> 0])
                 /\ reqs' = [reqs EXCEPT ![s].pc = "done"]
  /\ UNCHANGED <<txs, last, calc, users, emails>>

NextConcWallets ==
  \/ \E s \in Sessions : CheckCrudWallet(s)
  \/ \E s \in Sessions : CheckRoutesWallet(s)
  \/ \E s \in Sessions : InsertWallet(s)

SpecConcWallets == Init /\ [][NextConcWallets]_vars

(***************************************************************************)
(* The conversion functions called on their own, amounts in mills: one    *)
(* call from the initial state, and for core/currency.py the conversion   *)
(* of its result back.                                                     *)
(***************************************************************************)
UtilsConvertWithFee ==
  /\ calc = NoCall
  /\ \E x \in MillAmounts, f \in Currencies, t \in Currencies :
      /\ LET r == convert_with_fee(x, f, t)
         IN calc' = Call("utils.convert_with_fee", x, f, t, r.ok, r.amount, r.fee)
      /\ UNCHANGED <<wallets, txs, last, reqs, users, emails>>

ServiceConvertWithFee ==
  /\ calc = NoCall
  /\ \E x \in MillAmounts, f \in Currencies, t \in Currencies :
      /\ LET r == service_convert_with_fee(x, f, t)
         IN calc' = Call("currency_service.convert_with_fee", x, f, t,
                         r.ok, r.amount, r.fee)
      /\ UNCHANGED <<wallets, txs, last, reqs, users, emails>>

\* core/currency.py, amounts in cents
CoreConvertWithFee ==
  /\ calc = NoCall
  /\ \E x \in CoreAmounts, f \in Currencies, t \in Currencies :
      /\ LET converted == core_convert(x, f, t)
             net == core_convert_with_fee(x, f, t)
         IN calc' = Call("core.convert", x, f, t, TRUE, net, converted - net)
      /\ UNCHANGED <<wallets, txs, last, reqs, users, emails>>

\* the amount the last conversion returned, converted back
CoreConvertBack ==
  /\ calc.fn = "core.convert"
  /\ calc' = [calc EXCEPT !.fn = "core.round_trip",
                           !.back = core_convert_with_fee(calc.amount, calc.to, calc.from)]
  /\ UNCHANGED <<wallets, txs, last, reqs, users, emails>>

NextCalc ==
  \/ UtilsConvertWithFee
  \/ ServiceConvertWithFee
  \/ CoreConvertWithFee
  \/ CoreConvertBack

SpecCalc == Init /\ [][NextCalc]_vars

(***************************************************************************)
(* Properties                                                              *)
(***************************************************************************)

\* C1: after any sequence of create_wallet, credit, debit and transfer
\* requests, accepted or rejected, every wallet balance is >= 0
C1_BalanceNonNegative == \A w \in DOMAIN wallets : wallets[w].balance >= 0

\* a wallet that was debited down to exactly 0 while another holds money
C1_Witness ==
  /\ \E i \in DOMAIN txs :
       txs[i].type = DEBIT /\ wallets[txs[i].wallet_id].balance = 0
  /\ \E w \in DOMAIN wallets : wallets[w].balance > 0

\* C2: after any sequence of create_wallet requests no user owns more than
\* 3 wallets and no user owns two wallets of the same currency
C2_WalletLimits ==
  \A u \in Users :
    /\ Cardinality(WalletsOf(wallets, u)) <= 3
    /\ \A w1, w2 \in WalletsOf(wallets, u) :
         wallets[w1].currency = wallets[w2].currency => w1 = w2

\* a user who owns 3 wallets was refused a fourth one
C2_Witness ==
  /\ last.outcome \in {"LimitExceeded", "DuplicateCurrency"}
  /\ Cardinality(WalletsOf(wallets, last.user)) = 3

TxOps == {"routes_create_transaction", "crud_create_transaction"}
IsTransfer(r) == r.op = "transfer_between_wallets"

\* the stored (2-decimal) amount of a credit or debit request, in cents
Cents(r) == IF r.op = "routes_create_transaction"
              THEN validate_amount(r.amount).amount ELSE r.amount

\* the request amount has no more than 2 decimals
TwoDecimal(r) == r.op = "routes_create_transaction" => r.amount % 10 = 0

\* the request is in the currency of its wallet (crud.create_transaction
\* takes no currency: it is the wallet's)
OwnCurrency(r, ws) ==
  r.op = "routes_create_transaction" => r.currency = ws[r.wallet].currency

\* the amount a credit or debit request moves, in 1/Scale cents
Effective(r, ws) ==
  IF r.op = "routes_create_transaction"
    THEN EffectiveAmount(Cents(r), r.currency, ws[r.wallet].currency)
    ELSE r.amount * Scale

\* C3: of two debits on one wallet served at the same time from the same
\* balance, their amounts together exceeding it, at most one succeeds; and
\* no balance is negative
C3_AtMostOneDebit ==
  /\ \A w \in DOMAIN wallets : wallets[w].balance >= 0
  /\ \A s1, s2 \in Sessions :
       LET a == reqs[s1]
           b == reqs[s2]
       IN ( /\ s1 # s2 /\ a.pc = "done" /\ b.pc = "done" /\ a.conc /\ b.conc
            /\ a.req.type = DEBIT /\ b.req.type = DEBIT
            /\ a.req.wallet = b.req.wallet
            /\ a.seen.exists /\ a.seen = b.seen
            /\ a.seen.user_id = a.req.user /\ b.seen.user_id = b.req.user
            /\ Effective(a.req, wallets) + Effective(b.req, wallets)
                 > a.seen.balance * Scale )
          => ~(a.req.outcome = "ok" /\ b.req.outcome = "ok")

\* C11: converting x from a currency to the same currency returns x
\* rounded to 2 decimals, with a fee of exactly 0.00
C11_SameCurrencyQuantized ==
  ( /\ calc.fn \in {"utils.convert_with_fee", "currency_service.convert_with_fee"}
    /\ calc.from = calc.to )
  => ( /\ calc.ok
       /\ calc.amount = 10 * QuantizeHalfUp(calc.x, 10)
       /\ calc.fee = 0 )

\* the increase the specification gives for a cross-currency credit of
\* amount (cents) at a rate (thousandths), with a fee rate of 0.01:
\* quantize(quantize(a * rate) - quantize(quantize(a * rate) * 0.01))
SpecifiedNet(amount, rate) ==
  LET converted == QuantizeHalfUp(amount * rate, 1000)
  IN converted - QuantizeHalfUp(converted, 100)

\* C12: a credit of a > 0 in a currency F to a wallet of another currency W
\* increases the balance by exactly quantize(quantize(a * rate(F, W)) -
\* quantize(quantize(a * rate(F, W)) * 0.01))
C12_Step ==
  LET r == last'
  IN ( /\ r.op = "routes_create_transaction" /\ r.type = CREDIT
       /\ r.outcome = "ok"
       /\ r.currency # wallets[r.wallet].currency )
     => wallets'[r.wallet].balance =
          wallets[r.wallet].balance
            + SpecifiedNet(Cents(r),
                RoutesExchangeRates[<<r.currency, wallets[r.wallet].currency>>])

C12_CrossCurrencyCredit == [][C12_Step]_vars

\* the sum of the effective amounts of the records of wallet w, credits
\* positive and debits negative, in 1/Scale cents; the effective amount of
\* a record is its amount after conversion to the wallet's currency and
\* fee, as the handlers compute it
RECURSIVE SumEffective(_, _, _)
SumEffective(ts, w, ws) ==
  IF ts = <<>> THEN 0
  ELSE LET t == Head(ts)
           e == EffectiveAmount(t.amount, t.currency, ws[w].currency)
       IN (IF t.wallet_id # w THEN 0
           ELSE IF t.type = CREDIT THEN e ELSE 0 - e)
          + SumEffective(Tail(ts), w, ws)

\* C13: for every wallet, the sum of the effective amounts of the
\* operations applied to it equals its balance
C13_BalanceIsSumOfEffective ==
  \A w \in DOMAIN wallets :
    wallets[w].balance * Scale = SumEffective(txs, w, wallets)

ListOps == {"routes_get_wallet_transactions", "crud_get_wallet_transactions"}
CreateWalletOps == {"routes_create_wallet", "crud_create_wallet"}

\* the number of records of wallet w
Count(ts, w) == Len(WalletRecords(ts, w))

\* what a request does to the records and the balances: an accepted credit
\* or debit adds one record, on its wallet, and writes that wallet only; an
\* accepted transfer adds one record on each of its two wallets and writes
\* those only; a rejected request, the creation of a wallet and a listing
\* add no record
Paired(r) ==
  LET n == Len(txs)
  IN /\ r.op \in TxOps =>
          IF r.outcome = "ok"
            THEN /\ Len(txs') = n + 1 /\ SubSeq(txs', 1, n) = txs
                 /\ txs'[n + 1].wallet_id = r.wallet
                 /\ \A w \in DOMAIN wallets :
                      w # r.wallet => wallets'[w] = wallets[w]
            ELSE txs' = txs /\ wallets' = wallets
     /\ IsTransfer(r) =>
          IF r.outcome = "ok"
            THEN /\ Len(txs') = n + 2 /\ SubSeq(txs', 1, n) = txs
                 /\ txs'[n + 1].wallet_id = r.wallet
                 /\ txs'[n + 2].wallet_id = r.to
                 /\ \A w \in DOMAIN wallets :
                      w \notin {r.wallet, r.to} => wallets'[w] = wallets[w]
            ELSE txs' = txs /\ wallets' = wallets
     /\ r.op \in CreateWalletOps \cup ListOps => txs' = txs

\* C14 as amended: records and balance changes are paired one to one, and
\* a listing of a wallet with offset 0 and a limit of at least the number
\* n of its accepted operations returns n records
C14_Step ==
  LET r == last'
  IN /\ Paired(r)
     /\ ( /\ r.op \in ListOps /\ r.outcome = "ok"
          /\ r.skip = 0 /\ r.limit >= Count(txs, r.wallet) )
        => Len(r.result) = Count(txs, r.wallet)

C14_OriginalStep ==
  LET r == last'
  IN /\ Paired(r)
     /\ (r.op \in ListOps /\ r.outcome = "ok")
        => Len(r.result) = Count(txs, r.wallet)

C15_Step ==
  LET r == last'
      own == WalletsOf(wallets, r.user)
      allowed == /\ Cardinality(own) < 3
                 /\ \A w \in own : wallets[w].currency # r.currency
  IN r.op \in CreateWalletOps =>
       /\ (r.outcome = "ok") <=> allowed
       /\ txs' = txs
       /\ IF allowed
            THEN \E n \in DOMAIN wallets' \ DOMAIN wallets :
                   /\ DOMAIN wallets' = DOMAIN wallets \cup {n}
                   /\ wallets'[n] = [user_id |-> r.user, currency |-> r.currency,
                                     balance |-> 0]
                   /\ \A w \in DOMAIN wallets : wallets'[w] = wallets[w]
            ELSE wallets' = wallets

C15_CreateWallet == [][C15_Step]_vars

\* a user's third wallet was created while another user holds wallets
C15_Witness ==
  /\ last.op \in CreateWalletOps /\ last.outcome = "ok"
  /\ Cardinality(WalletsOf(wallets, last.user)) = 3
  /\ \E w \in DOMAIN wallets : wallets[w].user_id # last.user

\* C16: a credit or debit on the requester's wallet whose amount, quantized
\* to 2 decimals, is not greater than 0 is rejected with InvalidAmount and
\* changes no balance;
\* no record with an amount of 0.00 or less is ever stored
C16_Step ==
  LET r == last'
  IN /\ ( /\ r.op \in TxOps /\ Cents(r) <= 0
          /\ r.wallet \in DOMAIN wallets
          /\ wallets[r.wallet].user_id = r.user )
        => (r.outcome = "InvalidAmount" /\ wallets' = wallets /\ txs' = txs)
     /\ \A i \in DOMAIN txs' : txs'[i].amount > 0

C16_InvalidAmountRejected == [][C16_Step]_vars

\* C17 as amended: for every amount x >= 50.00 and every pair of distinct
\* currencies A and B, converting x from A to B with fee and the result
\* back from B to A with fee returns strictly less than x
C17_RoundTripLossy ==
  ( /\ calc.fn = "core.round_trip" /\ calc.from # calc.to
    /\ calc.x >= 5000 )
  => calc.back < calc.x

\* a round trip of at least 50.00 returned less, and more than nothing
C17_Witness ==
  /\ calc.fn = "core.round_trip" /\ calc.from # calc.to
  /\ calc.x >= 5000
  /\ calc.back > 0 /\ calc.back < calc.x

\* C17: for every amount x > 0 and every pair of distinct currencies, the
\* round trip with fee returns strictly less than x
C17_Original ==
  (calc.fn = "core.round_trip" /\ calc.from # calc.to /\ calc.x > 0)
  => calc.back < calc.x

ReadOps == {"routes_get_wallet_details", "routes_get_wallet_transactions",
            "read_wallet_transactions"}

\* C18: a read of a wallet by a user who is no superuser and does not own
\* it gets the NotFound response of a read of a wallet that does not
\* exist, whatever the wallet holds
C18_Step ==
  LET r == last'
  IN ( /\ r.op \in ReadOps /\ r.user \notin Superusers
       /\ (r.wallet \notin DOMAIN wallets
             \/ wallets[r.wallet].user_id # r.user) )
     => (r.outcome = "NotFound" /\ r.result = <<>>)

C18_ReadNotFound == [][C18_Step]_vars

\* C19: a credit or debit on a wallet that does not exist or that belongs
\* to another user is rejected, with NotFound when the wallet does not
\* exist (and the amount is one the request model accepts), and leaves
\* every balance and every transaction list as they were; no accepted
\* credit or debit changes a wallet or the records of a wallet the
\* requester does not own.
CreditDebitOps == TxOps \cup {"create_wallet_transaction"}

C19_Step ==
  LET r == last'
      missing == r.wallet \notin DOMAIN wallets
      foreign == ~missing /\ wallets[r.wallet].user_id # r.user
  IN r.op \in CreditDebitOps =>
       /\ (missing \/ foreign) =>
            (r.outcome # "ok" /\ wallets' = wallets /\ txs' = txs)
       /\ (missing /\ Cents(r) > 0) => r.outcome = "NotFound"
       /\ r.outcome = "ok" =>
            /\ wallets[r.wallet].user_id = r.user
            /\ DOMAIN wallets' = DOMAIN wallets
            /\ \A w \in DOMAIN wallets :
                 wallets[w].user_id # r.user =>
                   /\ wallets'[w] = wallets[w]
                   /\ WalletRecords(txs', w) = WalletRecords(txs, w)

DeleteOps == {"delete_user", "delete_user_me"}

C20_Integrity ==
  /\ \A w \in DOMAIN wallets : wallets[w].user_id \in users
  /\ \A i \in DOMAIN txs : txs[i].wallet_id \in DOMAIN wallets

C20_Step ==
  LET r == last'
  IN (r.op \in DeleteOps /\ r.outcome = "ok") =>
       /\ r.target \in users
       /\ r.target \notin users'
       /\ WalletsOf(wallets', r.target) = {}
       /\ \A w \in WalletsOf(wallets, r.target) :
            /\ w \notin DOMAIN wallets'
            /\ WalletRecords(txs', w) = <<>>

C20_ReferentialIntegrity == []C20_Integrity /\ [][C20_Step]_vars

\* a user whose wallets held transactions was deleted, and wallets of
\* another user remain
C20_Witness ==
  /\ last.op \in DeleteOps
  /\ last.outcome = "ok"
  /\ last.before > 0
  /\ wallets # <<>>

\* C21: the record an accepted credit or debit of a 2-decimal amount
\* creates stores the amount and the currency the caller supplied,
\* whatever the currency of the wallet is.
C21_Step ==
  LET r == last'
  IN (r.op \in TxOps /\ r.outcome = "ok" /\ TwoDecimal(r)) =>
       /\ Len(txs') = Len(txs) + 1
       /\ LET row == txs'[Len(txs')]
          IN /\ row.wallet_id = r.wallet
             /\ row.type = r.type
             /\ row.currency = r.currency
             /\ IF r.op = "routes_create_transaction"
                  THEN row.amount * 10 = r.amount
                  ELSE row.amount = r.amount

C21_StoredAsSupplied == [][C21_Step]_vars

\* C22: two accepted requests served at the same time on one wallet both
\* take effect: the balance they leave is the balance left by serving
\* them one after the other, in one order or the other.
Serial(a, b, ws) ==
  LET first == Handle(a, ws, <<>>)
  IN Handle(b, first.wallets, first.txs).wallets[a.wallet].balance

C22_NoLostUpdate ==
  \A s1, s2 \in Sessions :
    LET a == reqs[s1]
        b == reqs[s2]
    IN ( /\ s1 # s2 /\ a.pc = "done" /\ b.pc = "done" /\ a.conc /\ b.conc
         /\ a.req.wallet = b.req.wallet
         /\ a.seen.exists /\ a.seen = b.seen
         /\ a.req.outcome = "ok" /\ b.req.outcome = "ok" )
       => LET w == a.req.wallet
              start == Snapshot(wallets, w, a.seen)
          IN wallets[w].balance \in {Serial(a.req, b.req, start),
                                     Serial(b.req, a.req, start)}

\* C23: the rate tables hold a rate for every ordered pair of distinct
\* currencies, and no credit, debit or transfer fails with an unsupported
\* conversion or on a key the table lacks.
Pairs == {p \in Currencies \X Currencies : p[1] # p[2]}

C23_RatesComplete ==
  /\ Pairs \subseteq DOMAIN RoutesExchangeRates
  /\ Pairs \subseteq DOMAIN EXCHANGE_RATES
  /\ last.op \in TxOps \cup {"transfer_between_wallets"}
       => last.outcome \notin {"UnsupportedConversion", "KeyError"}

\* C24: the balance an accepted credit or debit stores is the unrounded
\* new balance rounded to 2 decimals half-up: a value halfway between two
\* cents goes to the upper cent.
C24_Step ==
  LET r == last'
  IN (r.op \in TxOps /\ r.outcome = "ok") =>
       LET balance == wallets[r.wallet].balance * Scale
           unrounded == IF r.type = CREDIT
                          THEN balance + Effective(r, wallets)
                          ELSE balance - Effective(r, wallets)
       IN wallets'[r.wallet].balance = QuantizeHalfUp(unrounded, Scale)

C24_RoundHalfUp == [][C24_Step]_vars

\* C25: for distinct currencies convert_with_fee returns (net, fee) with
\* gross the amount converted at the fixed rate and rounded to 2 decimals,
\* fee = quantize(gross * 0.01) and net = gross - fee.  Amounts in mills.
Gross(c) ==
  IF c.fn = "utils.convert_with_fee"
    THEN convert_currency(c.x, c.from, c.to).amount
    ELSE service_convert_currency(c.x, c.from, c.to)

C25_NetPlusFee ==
  ( /\ calc.fn \in {"utils.convert_with_fee", "currency_service.convert_with_fee"}
    /\ calc.from # calc.to )
  => ( /\ calc.ok
       /\ calc.fee = 10 * QuantizeHalfUp((Gross(calc) \div 10) * EXCHANGE_FEE_RATE, 100)
       /\ calc.amount = Gross(calc) - calc.fee )

\* C26: a listing of a wallet returns the records of that wallet only,
\* the most recently created first, without the first skip records of
\* that order and no more than limit records.
C26_Step ==
  LET r == last'
  IN (r.op \in ListOps /\ r.outcome = "ok") =>
       r.result = Page(Reverse(WalletRecords(txs, r.wallet)), r.skip, r.limit)

C26_NewestFirst == [][C26_Step]_vars

\* C27: the transaction log only grows: a credit, debit, transfer or
\* create_wallet request leaves every record that exists as it is, in its
\* place.
C27_Step ==
  /\ Len(txs') >= Len(txs)
  /\ SubSeq(txs', 1, Len(txs)) = txs

C27_AppendOnly == [][C27_Step]_vars

\* the two records of a transfer were added after an earlier record
C27_Witness ==
  /\ Len(txs) = MaxTx + 1
  /\ txs[Len(txs) - 1].type = DEBIT
  /\ txs[Len(txs)].type = CREDIT

\* C28: whatever the interleaving of the create_wallet requests of a user
\* served at the same time, the user ends with at most 3 wallets and with
\* no two wallets of one currency.
C28_ConcurrentWalletLimits ==
  (\A s \in Sessions : reqs[s].pc # "loaded") =>
    \A u \in TxUsers :
      /\ Cardinality(WalletsOf(wallets, u)) <= MAX_WALLETS_PER_USER
      /\ \A w1, w2 \in WalletsOf(wallets, u) :
           w1 # w2 => wallets[w1].currency # wallets[w2].currency

\* C29: no two users have the same e-mail address; a request that would
\* give a user an e-mail address another user holds is rejected and
\* changes no user.
Held(email, by) == \E u \in users \ by : emails[u] = email

C29_Unique ==
  \A u1, u2 \in users : emails[u1] = emails[u2] => u1 = u2

C29_Step ==
  LET r == last'
  IN /\ ( /\ r.op \in {"register_user", "create_user"}
          /\ Held(r.email, {}) )
        => (r.outcome = "EmailExists" /\ users' = users /\ emails' = emails)
     /\ ( /\ r.op \in {"update_user", "update_user_me"}
          /\ r.target \in users /\ r.email # NoEmail
          /\ Held(r.email, {r.target}) )
        => (r.outcome = "Conflict" /\ users' = users /\ emails' = emails)

\* C29: e-mail addresses stay unique, and a request for a held address
\* is rejected and changes no user.
C29_UniqueEmail == []C29_Unique /\ [][C29_Step]_vars

\* a user asked for the e-mail address of another user and was refused
C29_Witness ==
  /\ last.op = "update_user_me"
  /\ last.outcome = "Conflict"
  /\ \E u \in users \ {last.user} : emails[u] = last.email

\* C30: the admin create_user request has no partial effect: when it ends
\* in an error no new user exists afterwards, and a new user exists only
\* if the request returned success.
C30_Step ==
  LET r == last'
  IN r.op = "create_user" =>
       /\ r.outcome # "ok" => (users' = users /\ emails' = emails)
       /\ users' # users => r.outcome = "ok"

C30_NoPartialEffect == [][C30_Step]_vars

\* C4: a debit whose effective amount exceeds the balance of its wallet is
\* rejected with insufficient funds; the rejection changes no balance and
\* adds no transaction record
C4_Step ==
  LET r == last'
  IN /\ ( /\ r.op \in TxOps /\ r.type = DEBIT /\ r.amount > 0
          /\ r.wallet \in DOMAIN wallets
          /\ wallets[r.wallet].user_id = r.user
          /\ Effective(r, wallets) > wallets[r.wallet].balance * Scale )
        => r.outcome = "InsufficientFunds"
     /\ (r.op \in TxOps /\ r.outcome = "InsufficientFunds")
        => (wallets' = wallets /\ txs' = txs)

C10_Step ==
  LET c == last
      d == last'
  IN ( /\ c.op \in TxOps /\ c.type = CREDIT /\ c.outcome = "ok"
       /\ OwnCurrency(c, wallets) /\ TwoDecimal(c) /\ Cents(c) > 0
       /\ d.op \in TxOps /\ d.type = DEBIT
       /\ d.wallet = c.wallet /\ d.user = c.user
       /\ OwnCurrency(d, wallets) /\ TwoDecimal(d) /\ Cents(d) = Cents(c) )
     => (d.outcome = "ok" /\ wallets'[d.wallet].balance = c.before)

C10_CreditThenDebit == [][C10_Step]_vars

\* the last two records are a credit and a debit of the same amount on the
\* same wallet, in its own currency
C10_Witness ==
  LET n == Len(txs)
  IN /\ n >= 2
     /\ last.op \in TxOps /\ last.type = DEBIT /\ last.outcome = "ok"
     /\ txs[n].type = DEBIT /\ txs[n - 1].type = CREDIT
     /\ txs[n].wallet_id = txs[n - 1].wallet_id
     /\ txs[n].amount = txs[n - 1].amount /\ txs[n].amount > 0
     /\ txs[n].currency = wallets[txs[n].wallet_id].currency
     /\ txs[n - 1].currency = wallets[txs[n].wallet_id].currency

\* C5: a transfer is all or nothing: a failed transfer changes no balance
\* and adds no record; a successful one applies the debit and the credit
\* and adds the two records
C5_Step ==
  LET r == last'
      n == Len(txs)
  IN IsTransfer(r) =>
       IF r.outcome # "ok"
         THEN wallets' = wallets /\ txs' = txs
         ELSE /\ Len(txs') = n + 2
              /\ SubSeq(txs', 1, n) = txs
              /\ txs'[n + 1].wallet_id = r.wallet /\ txs'[n + 1].type = DEBIT
              /\ txs'[n + 1].amount = r.amount
              /\ txs'[n + 2].wallet_id = r.to /\ txs'[n + 2].type = CREDIT
              /\ DOMAIN wallets' = DOMAIN wallets
              /\ \A w \in DOMAIN wallets :
                   wallets'[w].balance =
                     wallets[w].balance
                       - (IF w = r.wallet THEN r.amount ELSE 0)
                       + (IF w = r.to THEN txs'[n + 2].amount ELSE 0)

C5_TransferAllOrNothing == [][C5_Step]_vars

\* a transfer failed at its last step, the conversion, with the source
\* holding enough money
C5_Witness ==
  /\ IsTransfer(last) /\ last.outcome = "KeyError"
  /\ wallets[last.wallet].balance >= last.amount

\* C7: a transfer from a wallet to itself is rejected with SameWallet,
\* changes no balance and adds no record (stated for an existing wallet of
\* the requesting user that holds the amount)
C7_Step ==
  LET r == last'
  IN ( /\ IsTransfer(r) /\ r.wallet = r.to
       /\ r.wallet \in DOMAIN wallets
       /\ wallets[r.wallet].user_id = r.user
       /\ wallets[r.wallet].balance >= r.amount )
     => (r.outcome = "SameWallet" /\ wallets' = wallets /\ txs' = txs)

C7_SameWalletRejected == [][C7_Step]_vars

\* C8: a transfer fails with NotFound when a wallet is missing and with
\* Forbidden when a wallet is not the requesting user's; no transfer changes
\* a wallet of another user
C8_Step ==
  LET r == last'
  IN IsTransfer(r) =>
       /\ (r.wallet \notin DOMAIN wallets \/ r.to \notin DOMAIN wallets)
            => r.outcome = "NotFound"
       /\ ( /\ r.wallet \in DOMAIN wallets /\ r.to \in DOMAIN wallets
            /\ (wallets[r.wallet].user_id # r.user
                  \/ wallets[r.to].user_id # r.user) )
            => r.outcome = "Forbidden"
       /\ \A w \in DOMAIN wallets :
            wallets[w].user_id # r.user => wallets'[w] = wallets[w]

C8_TransferOwnership == [][C8_Step]_vars

\* a transfer into a funded wallet of another user was refused
C8_Witness ==
  /\ IsTransfer(last) /\ last.outcome = "Forbidden"
  /\ wallets[last.wallet].user_id = last.user
  /\ wallets[last.wallet].balance >= last.amount
  /\ wallets[last.to].user_id # last.user

\* the net amount section 4.2 of the specification gives for a conversion
\* at the rate of the pair (from, to): quantize(a * rate) minus its fee
PairNet(amount, from_currency, to_currency) ==
  LET converted == QuantizeHalfUp(
                     amount * EXCHANGE_RATES[<<from_currency, to_currency>>], 1000)
  IN converted - calculate_exchange_fee(converted)

\* C9: a cross-currency transfer of a between two wallets of the requesting
\* user, the source holding a, succeeds: it takes a from the source, adds
\* the converted net amount to the destination, and records a debit of a in
\* the source currency and a credit in the destination currency
C9_Step ==
  LET r == last'
      n == Len(txs)
  IN ( /\ IsTransfer(r)
       /\ r.wallet \in DOMAIN wallets /\ r.to \in DOMAIN wallets
       /\ wallets[r.wallet].user_id = r.user /\ wallets[r.to].user_id = r.user
       /\ wallets[r.wallet].currency # wallets[r.to].currency
       /\ wallets[r.wallet].balance >= r.amount )
     => /\ r.outcome = "ok"
        /\ wallets'[r.wallet].balance = wallets[r.wallet].balance - r.amount
        /\ wallets'[r.to].balance = wallets[r.to].balance
             + PairNet(r.amount, wallets[r.wallet].currency, wallets[r.to].currency)
        /\ Len(txs') = n + 2
        /\ txs'[n + 1] = Tx(r.wallet, DEBIT, r.amount, wallets[r.wallet].currency)
        /\ txs'[n + 2].wallet_id = r.to /\ txs'[n + 2].type = CREDIT
        /\ txs'[n + 2].currency = wallets[r.to].currency

C9_CrossCurrencyTransfer == [][C9_Step]_vars

====
